---- MODULE Spec2Model ----
(***************************************************************************)
(* A model of cpgame.py: the timer registries INTERVALS and TIMERS, the    *)
(* binding list PRESSES, the event loop of start() and the button poll of  *)
(* Gamepad.__call__.                                                       *)
(*                                                                         *)
(* Time is counted in units of 0.01 s, so the poll interval 0.02 is 2: a    *)
(* clock reading, an interval or a target the application writes is the    *)
(* float nearest to k/100, written k.  A sum the code computes (line 125,   *)
(* 230, 242) is a rounded float addition, see FloatAdd.                     *)
(*                                                                         *)
(* start() iterates INTERVALS.items() and TIMERS.items() while handlers    *)
(* (and start() itself, line 238) add and delete keys.  What that does is  *)
(* left open by the language and differs between the interpreters the      *)
(* module runs on, so the interpreter is a variable, build, fixed by Init: *)
(*   "cpython"     the dict is an insertion-ordered entry array with       *)
(*                 deleted slots; the iterator is a position in it and     *)
(*                 raises RuntimeError when the size changed or when it    *)
(*                 finds more entries than the dict had at the start;      *)
(*   "micropython" the dict is a hash table walked by a slot cursor with   *)
(*                 no guard: entries are visited in an arbitrary order, an *)
(*                 entry added during the walk lands before or behind the  *)
(*                 cursor (it is visited or not), an entry already visited *)
(*                 is not visited again.                                   *)
(***************************************************************************)
EXTENDS Integers, Sequences, FiniteSets, TLC

VARIABLES
    build,          \* the interpreter, see above
    profile,        \* the kind of application: "timers", "buttons" or "pins"
    pc,             \* where the program is: "app", or a place in start()
    err,            \* the exception that ended the program, "" for none
    clock,          \* time.monotonic()
    now,            \* start(): the local now of the current pass
    RUNNING,        \* module global RUNNING
    INTERVALS,      \* module global INTERVALS: fn -> (interval, last_called)
    TIMERS,         \* module global TIMERS: fn -> target (a float <<k, e>>)
    PRESSES,        \* module global PRESSES: list of (fn, buttons, action)
    BUTTONS,        \* module global BUTTONS
    DIOS,           \* module global DIOS: the pin each driver reads
    GAMEPADSHIFT,   \* module global GAMEPADSHIFT: TRUE once created
    pad,            \* Gamepad.instance: its lists down and pressed
    it,             \* the iterator of the for loop start() is in
    cur,            \* the (fn, interval) the INTERVALS loop is calling
    disp,           \* Gamepad.__call__: loop index, fresh_down, fresh_up
                    \* (and, history, start: PRESSES when the loop began)
    next_target,    \* start(): the local next_target (a float <<k, e>>)
    slept,          \* TRUE once start() has called time.sleep
    hist,           \* history: the registrations and calls of each handler
    pass            \* history: the calls of the current pass, in order

vars == <<build, profile, pc, err, clock, now, RUNNING, INTERVALS, TIMERS, PRESSES,
          BUTTONS, DIOS, GAMEPADSHIFT, pad, it, cur, disp, next_target,
          slept, hist, pass>>

----------------------------------------------------------------------------
(* Bounds of the model *)

\* the clock stops at MaxTime; for an application that registers no timer
\* (where a longer run costs little) at MaxPollTime
MaxTime == 4
MaxPollTime == 10
\* a pass or a sleep ends at most MaxLate units late
MaxLate == 1
\* the calls of a handler are counted up to MaxCalls
MaxCalls == 2
\* on() is called at most MaxPresses times
MaxPresses == 2
\* the application makes at most MaxSetup other calls before start()
MaxSetup == 1
\* the handlers make at most MaxMade registration calls in all
MaxMade == 1

Handlers == {"h1", "h2"}
\* the Gamepad instance start() registers as a periodic task
GamepadFn == "Gamepad"
NoFn == "<none>"

Min(a, b) == IF a < b THEN a ELSE b
Range(s) == {s[i] : i \in 1..Len(s)}

\* line 59, 60: the two actions of a binding
DOWN == 1
UP == 2
\* line 61: a handler returns the sentinel PROPOGATE or anything else
PROPOGATE == "PROPOGATE"
None == "None"

\* line 218: every(0.02)
PollInterval == 2

----------------------------------------------------------------------------
(* The dicts INTERVALS and TIMERS.                                         *)
(* A dict is [ent, free]: ent is the entry array, each entry a key k and a *)
(* value v (a tuple: (interval, last_called) or (target,)); free is the    *)
(* number of entries the array can still take before it is rebuilt.        *)
(* On cpython a deleted entry stays in ent as Tomb until the array is      *)
(* rebuilt; on micropython ent holds the live entries in a fixed key order *)
(* (the table order is not observable in this model, see IterYields).      *)

Tomb == [k |-> NoFn, v |-> <<>>]
EmptyDict == [ent |-> <<>>, free |-> 0]
KeyOrder == <<GamepadFn, "h1", "h2">>

IsLive(e) == e.k # NoFn
Live(d) == SelectSeq(d.ent, IsLive)
Keys(d) == {d.ent[i].k : i \in 1..Len(d.ent)} \ {NoFn}
Used(d) == Cardinality(Keys(d))
Index(d, k) == CHOOSE i \in 1..Len(d.ent) : d.ent[i].k = k
Get(d, k) == d.ent[Index(d, k)].v

\* cpython (3.11) dictobject.c, calculate_log2_keysize(minsize):
\* 2 ^ bit_length(((minsize | 8) - 1) | 7)
\* n | 8 and n | 7
OrEight(n) == IF (n \div 8) % 2 = 1 THEN n ELSE n + 8
OrSeven(n) == (n \div 8) * 8 + 7
\* 2 ^ bit_length(m) for m >= 7: the smallest power of two > m, from size on
RECURSIVE KeySizeFrom(_, _)
KeySizeFrom(size, m) == IF size > m THEN size ELSE KeySizeFrom(2 * size, m)
KeySize(n) == KeySizeFrom(8, OrSeven(OrEight(n) - 1))
\* cpython dictobject.c: USABLE_FRACTION
Usable(size) == (2 * size) \div 3
\* cpython dictobject.c: insertion_resize, GROWTH_RATE = 3 * used; the live
\* entries are copied to the front of a new array
Resized(d) ==
    LET live == Live(d)
    IN  [ent |-> live, free |-> Usable(KeySize(3 * Len(live))) - Len(live)]

\* a store that adds an entry without looking for the key
DictSetAgain(d, k, v) ==
    [ent |-> Append(d.ent, [k |-> k, v |-> v]), free |-> d.free - 1]
\* d[k] = v
DictSet(d, k, v) ==
    IF k \in Keys(d)
    THEN [d EXCEPT !.ent[Index(d, k)].v = v]
    ELSE IF build = "cpython"
    THEN LET d1 == IF d.free <= 0 THEN Resized(d) ELSE d
         IN  [ent |-> Append(d1.ent, [k |-> k, v |-> v]), free |-> d1.free - 1]
    ELSE LET ord == SelectSeq(KeyOrder, LAMBDA x : x \in Keys(d) \cup {k})
         IN  [ent |-> [i \in 1..Len(ord) |->
                         [k |-> ord[i],
                          v |-> IF ord[i] = k THEN v ELSE Get(d, ord[i])]],
              free |-> 0]

\* d.pop(k, None) and, for a key that is present, del d[k]
DictPop(d, k) ==
    IF k \notin Keys(d)
    THEN d
    ELSE IF build = "cpython"
    THEN [d EXCEPT !.ent[Index(d, k)] = Tomb]
    ELSE [d EXCEPT !.ent = SelectSeq(@, LAMBDA e : e.k # k)]

(* The iterator of "for ... in d.items()".                                 *)
(* cpython: pos is the index of the entry last returned, len the number of *)
(* entries still expected, used the size of the dict when the loop began.  *)
(* micropython: seen are the keys returned so far, must the keys that were *)
(* in the table when the loop began and were not deleted since.            *)
NoIter == [pos |-> 0, len |-> 0, used |-> 0, seen |-> {}, must |-> {}]

IterNew(d) ==
    IF build = "cpython"
    THEN [pos |-> 0, len |-> Used(d), used |-> Used(d), seen |-> {}, must |-> {}]
    ELSE [pos |-> 0, len |-> 0, used |-> 0, seen |-> {}, must |-> Keys(d)]

\* cpython: the index of the first live entry behind pos, 0 when none
CpNextIdx(d, i) ==
    LET s == {j \in (i.pos + 1)..Len(d.ent) : IsLive(d.ent[j])}
    IN  IF s = {} THEN 0 ELSE CHOOSE j \in s : \A m \in s : j <= m

\* next() raises RuntimeError: "dictionary changed size during iteration",
\* "dictionary keys changed during iteration"
IterRaises(d, i) ==
    /\ build = "cpython"
    /\ \/ i.used # Used(d)
       \/ CpNextIdx(d, i) # 0 /\ i.len = 0

\* next() ends the loop
IterStops(d, i) ==
    IF build = "cpython"
    THEN i.used = Used(d) /\ CpNextIdx(d, i) = 0
    ELSE (i.must \ i.seen) = {}

\* the keys next() can return
IterYields(d, i) ==
    IF build = "cpython"
    THEN IF i.used = Used(d) /\ CpNextIdx(d, i) # 0 /\ i.len > 0
         THEN {d.ent[CpNextIdx(d, i)].k}
         ELSE {}
    ELSE Keys(d) \ i.seen

\* the iterator after next() returned k
IterAdvance(d, i, k) ==
    IF build = "cpython"
    THEN [i EXCEPT !.pos = CpNextIdx(d, i), !.len = @ - 1]
    ELSE [i EXCEPT !.seen = @ \cup {k}]

\* the iterator of a loop over a dict that keys ks were deleted from
IterDeleted(i, ks) == [i EXCEPT !.must = @ \ ks]

----------------------------------------------------------------------------
(* The registration functions.  A call is [op, fn, n, btns, act]; it acts  *)
(* on the module globals, gathered in a record w:                          *)
(*   I INTERVALS, T TIMERS, P PRESSES, B BUTTONS, D DIOS, G GAMEPADSHIFT,  *)
(*   R RUNNING, E the exception the call raised ("" for none).             *)

\* line 65-74: the pins of board that are digital inputs and touch inputs
DIGITALIO == {"BUTTON_A", "BUTTON_B"}
TOUCHIO == {"A1"}
\* line 82: the buttons of the shift register, in the order of the tuple
GAMEPAD == <<"GP_A", "GP_B">>
\* a button name that is none of them
Unknown == "NOPIN"
\* no driver: the local dio of on() before its first assignment
Unbound == "<unbound>"

\* every button name of the model
AllButtons == Range(GAMEPAD) \cup DIGITALIO \cup TOUCHIO \cup {Unknown}

Call(op, fn, n, btns, act) == [op |-> op, fn |-> fn, n |-> n, btns |-> btns, act |-> act]
NoCall == Call("none", NoFn, 0, <<>>, DOWN)

\* line 99-102
tick(w, fn) == [w EXCEPT !.I = DictSet(w.I, fn, <<0, 0>>)]

\* line 105-115
every(w, interval, fn) == [w EXCEPT !.I = DictSet(w.I, fn, <<interval, 0>>)]

(* Floats.  A float is <<k, e>>: the float nearest to k/100 (e = 0), the   *)
(* next float above it (e = 1) or the next float below it (e = -1).  The   *)
(* sum of the floats of a/100 and b/100 is the float of (a+b)/100 or one   *)
(* of its two neighbours; which one is a fact of IEEE 754 double           *)
(* arithmetic, tabulated here for a + b <= 24 (0.07 + 0.02 is              *)
(* 0.09000000000000001, 0.06 + 0.01 is 0.06999999999999999).               *)
RoundsUp ==
    {<<1, 5>>, <<1, 14>>, <<1, 17>>, <<1, 20>>, <<1, 23>>, <<2, 7>>, <<2, 10>>,
     <<4, 7>>, <<4, 14>>, <<4, 17>>, <<4, 20>>, <<5, 7>>, <<5, 10>>, <<5, 16>>,
     <<5, 17>>, <<7, 8>>, <<7, 14>>, <<7, 17>>, <<8, 13>>, <<8, 14>>,
     <<10, 11>>, <<10, 14>>}
RoundsDown ==
    {<<1, 6>>, <<1, 9>>, <<2, 12>>, <<2, 15>>, <<2, 18>>, <<2, 21>>, <<5, 12>>,
     <<5, 18>>, <<6, 11>>, <<8, 9>>, <<8, 15>>, <<11, 12>>}
Ulp(a, b) ==
    LET p == IF a <= b THEN <<a, b>> ELSE <<b, a>>
    IN  IF p \in RoundsUp THEN 1 ELSE IF p \in RoundsDown THEN -1 ELSE 0
\* the float of a literal or of a clock reading
Float(k) == <<k, 0>>
\* a + b of two such floats
FloatAdd(a, b) == <<a + b, Ulp(a, b)>>
\* x < y, x <= y
FloatLess(x, y) == x[1] < y[1] \/ (x[1] = y[1] /\ x[2] < y[2])
FloatLeq(x, y) == x = y \/ FloatLess(x, y)

\* line 118-120
at(w, target, fn) == [w EXCEPT !.T = DictSet(w.T, fn, <<Float(target)>>)]

\* line 123-125; t is time.monotonic()
after(w, t, target, fn) ==
    [w EXCEPT !.T = DictSet(w.T, fn, <<FloatAdd(t, target)>>)]

\* line 134-137: the list without its first entry of fn
RECURSIVE PopFirst(_, _)
PopFirst(presses, fn) ==
    IF presses = <<>> THEN <<>>
    ELSE IF Head(presses).fn = fn THEN Tail(presses)
    ELSE <<Head(presses)>> \o PopFirst(Tail(presses), fn)

\* a cancel that pops without a default: a key that is absent is an error
cancelStrict(w, fn) ==
    IF fn \notin Keys(w.I) \/ fn \notin Keys(w.T)
    THEN [w EXCEPT !.E = "KeyError"]
    ELSE [w EXCEPT !.I = DictPop(w.I, fn),
                   !.T = DictPop(w.T, fn),
                   !.P = PopFirst(w.P, fn)]
\* line 128-137, for one fn
cancel(w, fn) ==
    [w EXCEPT !.I = DictPop(w.I, fn),
              !.T = DictPop(w.T, fn),
              !.P = PopFirst(w.P, fn)]

\* line 144-170: the loop over buttons from index i on, dio the local dio
RECURSIVE OnButtons(_, _, _, _)
OnButtons(w, btns, i, dio) ==
    IF i > Len(btns) THEN w
    ELSE LET button == btns[i] IN
         IF button \in Range(w.B) THEN OnButtons(w, btns, i + 1, dio)
         ELSE IF button \in Range(GAMEPAD)
         THEN OnButtons([w EXCEPT !.G = TRUE], btns, i + 1, dio)
         ELSE LET d == IF button \in DIGITALIO \cup TOUCHIO THEN button ELSE dio
                  w1 == [w EXCEPT !.B = Append(@, button)]
              IN  IF d = Unbound
                  THEN [w1 EXCEPT !.E = "UnboundLocalError"]
                  ELSE OnButtons([w1 EXCEPT !.D = Append(@, d)], btns, i + 1, d)

\* line 140-181; id is the number of the registration (history)
on(w, btns, fn, action, id) ==
    LET w1 == OnButtons(w, btns, 1, Unbound)
    IN  IF w1.E # "" THEN w1
        ELSE [w1 EXCEPT !.P = Append(@, [fn |-> fn, buttons |-> btns,
                                         action |-> action, id |-> id])]

\* line 210-213
stop(w) == [w EXCEPT !.R = FALSE]

\* the call c made at time t
Apply(w, c, t, id) ==
    CASE c.op = "tick"   -> tick(w, c.fn)
      [] c.op = "every"  -> every(w, c.n, c.fn)
      [] c.op = "at"     -> at(w, c.n, c.fn)
      [] c.op = "after"  -> after(w, t, c.n, c.fn)
      [] c.op = "cancel" -> cancel(w, c.fn)
      [] c.op = "on"     -> on(w, c.btns, c.fn, c.act, id)
      [] c.op = "stop"   -> stop(w)
      [] OTHER           -> w

World == [I |-> INTERVALS, T |-> TIMERS, P |-> PRESSES, B |-> BUTTONS,
          D |-> DIOS, G |-> GAMEPADSHIFT, R |-> RUNNING, E |-> ""]

\* the keys a call deletes from INTERVALS and TIMERS
Deletes(c) == IF c.op = "cancel" THEN {c.fn} ELSE {}

----------------------------------------------------------------------------
(* What the application and its handlers do.  The application is any       *)
(* sequence of registration calls followed by start(); a handler makes one *)
(* registration call, or none, each time it is called.                     *)

Intervals == {2}
Targets == {1}
Delays == {1}

TimerCalls ==
    {Call("tick", f, 0, <<>>, DOWN) : f \in Handlers}
    \cup {Call("every", f, n, <<>>, DOWN) : f \in Handlers, n \in Intervals}
    \cup {Call("at", f, n, <<>>, DOWN) : f \in Handlers, n \in Targets}
    \cup {Call("after", f, n, <<>>, DOWN) : f \in Handlers, n \in Delays}
CancelCalls == {Call("cancel", f, 0, <<>>, DOWN) : f \in Handlers \cup {GamepadFn}}
StopCalls == {Call("stop", NoFn, 0, <<>>, DOWN)}
OnCalls(combos, actions) ==
    {Call("on", f, 0, b, a) : f \in Handlers, b \in combos, a \in actions}

(* Three kinds of application bound the model.  "timers": any timer call,  *)
(* cancel and stop, and two bindings of a shift register button, each of   *)
(* which may be made several times.  "buttons": bindings of combos of two  *)
(* shift register buttons and cancel, no timer call.  "pins": bindings of  *)
(* a pin of the board, of a name that is no button and of a shift register *)
(* button, no timer call.                                                  *)
Calls ==
    IF profile = "timers"
    THEN TimerCalls \cup CancelCalls \cup StopCalls
         \cup {Call("on", "h2", 0, <<"GP_A">>, DOWN),
               Call("on", "h1", 0, <<"GP_A">>, UP)}
    ELSE IF profile = "pins"
    THEN {Call("on", "h1", 0, <<"BUTTON_A">>, DOWN),
          Call("on", "h1", 0, <<"BUTTON_A", Unknown>>, DOWN),
          Call("on", "h2", 0, <<Unknown>>, DOWN),
          Call("on", "h2", 0, <<"A1">>, UP),
          Call("on", "h2", 0, <<"GP_A">>, DOWN)}
    ELSE {Call("cancel", f, 0, <<>>, DOWN) : f \in Handlers}
         \cup {Call("on", "h1", 0, <<"GP_A">>, DOWN),
               Call("on", "h1", 0, <<"GP_A", "GP_B">>, DOWN),
               Call("on", "h2", 0, <<"GP_A">>, DOWN),
               Call("on", "h2", 0, <<"GP_B">>, UP)}

AppCalls == Calls
HandlerCalls == {NoCall} \cup Calls

(* History variables: what was registered, called and read, for the       *)
(* properties.  hist.h[f], for a handler f:                                *)
(*   calls      the number of calls of f (counted up to MaxCalls)          *)
(*   last       the time passed to the last call (-1: none)                *)
(*   regs       the number of registrations of f (counted up to 2)         *)
(*   kind       the first of them                                          *)
(*   cancelled  whether cancel(f) was called                               *)
(*   due        the time the last at() or after() asked for (-1: none)     *)
(*   want       the interval the last tick() or every() asked for          *)
(*   gone       "now": cancel(f) was called in the current pass (or before *)
(*              start()) and f was not registered since; "before": in an   *)
(*              earlier pass; "no" otherwise                               *)
(*   fresh      f was registered by tick() or every() since the current    *)
(*              pass began                                                 *)
(* and of the run:                                                         *)
(*   binds, setup, made  the number of on() calls, of other calls of the   *)
(*              application before start(), of calls made by handlers      *)
(*   did        the last call made                                         *)
(*   stop       who called stop() first: "", "app" or "handler"            *)
(*   halted     a pass began after a handler had called stop()             *)
(*   due        the tasks that were due when the current pass began        *)
(*   polls      the number of polls that read the buttons                  *)
(*   raw, prev  the list read by the last poll and by the one before       *)
(*   since[b]   the first of the polls in a row, up to the last one, that  *)
(*              read button b down (0: the last poll read it up)           *)
(*   moved[b]   the poll in which b last entered or left pressed (0: none) *)
NoHist == [calls |-> 0, last |-> -1, regs |-> 0, kind |-> "", cancelled |-> FALSE,
           due |-> -1, want |-> -1, gone |-> "no", fresh |-> FALSE]

\* the history after call c, made at time t by who ("app" or "handler")
Recorded(h, c, t, who) ==
    LET h1 == [h EXCEPT !.did = c,
                        !.stop = IF c.op = "stop" /\ @ = "" THEN who ELSE @,
                        !.binds = IF c.op = "on" THEN @ + 1 ELSE @]
    IN  IF c.fn \notin Handlers THEN h1
        ELSE IF c.op = "cancel"
        THEN [h1 EXCEPT !.h[c.fn].cancelled = TRUE, !.h[c.fn].gone = "now"]
        ELSE IF c.op \in {"tick", "every", "at", "after", "on"}
        THEN [h1 EXCEPT !.h[c.fn].regs = Min(@ + 1, 2),
                        !.h[c.fn].kind = IF h.h[c.fn].regs = 0 THEN c.op ELSE @,
                        !.h[c.fn].due = CASE c.op = "at" -> c.n
                                          [] c.op = "after" -> t + c.n
                                          [] OTHER -> @,
                        !.h[c.fn].want = CASE c.op = "tick" -> 0
                                           [] c.op = "every" -> c.n
                                           [] OTHER -> @,
                        !.h[c.fn].gone = IF c.op = "on" THEN @ ELSE "no",
                        !.h[c.fn].fresh = @ \/ c.op \in {"tick", "every"}]
        ELSE h1

Called(h, fn, t) ==
    [h EXCEPT !.h[fn].calls = Min(@ + 1, MaxCalls), !.h[fn].last = t]

\* the history after a poll read the list down
Polled(h, down) ==
    [h EXCEPT !.polls = @ + 1, !.prev = h.raw, !.raw = down,
              !.since = [b \in DOMAIN @ |->
                           IF b \notin Range(down) THEN 0
                           ELSE IF @[b] = 0 THEN h.polls + 1 ELSE @[b]]]

\* the history after the buttons of fresh entered or left pressed
Confirmed(h, fresh) ==
    [h EXCEPT !.moved = [b \in DOMAIN @ |-> IF b \in Range(fresh) THEN h.polls ELSE @[b]]]

\* the calls the bounds of the model allow the application and a handler
AppAllowed(c) ==
    IF c.op = "on" THEN hist.binds < MaxPresses ELSE hist.setup < MaxSetup
Allowed(c) ==
    /\ c.op = "on" => hist.binds < MaxPresses
    /\ c # NoCall => hist.made < MaxMade

\* the history after a handler made call c at time t
Made(h, c, t) ==
    IF c = NoCall THEN h ELSE [Recorded(h, c, t, "handler") EXCEPT !.made = @ + 1]

----------------------------------------------------------------------------
InitOf(p) ==
    /\ build \in {"cpython", "micropython"}
    /\ profile = p
    /\ pc = "app"
    /\ err = ""
    /\ clock = 0
    /\ now = 0
    /\ RUNNING = TRUE
    /\ INTERVALS = EmptyDict
    /\ TIMERS = EmptyDict
    /\ PRESSES = <<>>
    /\ BUTTONS = <<>>
    /\ DIOS = <<>>
    /\ GAMEPADSHIFT = FALSE
    /\ pad = [down |-> <<>>, pressed |-> <<>>]
    /\ it = NoIter
    /\ cur = [fn |-> NoFn, interval |-> 0]
    /\ disp = [i |-> 0, fresh_down |-> <<>>, fresh_up |-> <<>>, start |-> <<>>]
    /\ next_target = Float(0)
    /\ slept = FALSE
    /\ hist = [h |-> [f \in Handlers |-> NoHist], binds |-> 0, setup |-> 0,
               made |-> 0, did |-> NoCall, stop |-> "", halted |-> FALSE, due |-> {},
               polls |-> 0, raw |-> <<>>, prev |-> <<>>,
               since |-> [b \in AllButtons |-> 0],
               moved |-> [b \in AllButtons |-> 0]]
    /\ pass = <<>>

\* the module globals become those of w; an exception ends the program
SetWorld(w, place) ==
    /\ INTERVALS' = w.I
    /\ TIMERS' = w.T
    /\ PRESSES' = w.P
    /\ BUTTONS' = w.B
    /\ DIOS' = w.D
    /\ GAMEPADSHIFT' = w.G
    /\ RUNNING' = w.R
    /\ err' = w.E
    /\ pc' = IF w.E # "" THEN "raised" ELSE place

\* the application calls a registration function before start()
AppCall(c) ==
    /\ pc = "app"
    /\ AppAllowed(c)
    /\ SetWorld(Apply(World, c, clock, hist.binds + 1), "app")
    /\ hist' = [Recorded(hist, c, clock, "app") EXCEPT
                   !.setup = IF c.op = "on" THEN @ ELSE @ + 1]
    /\ UNCHANGED <<build, profile, clock, now, pad, it, cur, disp, next_target, slept, pass>>

\* line 216-221: start(fn), fn = NoFn for start()
Start(fn) ==
    /\ pc = "app"
    /\ LET w1 == every(World, PollInterval, GamepadFn)
           w2 == IF fn # NoFn THEN at(w1, 0, fn) ELSE w1
       IN  SetWorld(w2, "top")
    /\ pad' = [down |-> <<>>, pressed |-> <<>>]
    /\ hist' = IF fn = NoFn THEN hist
                ELSE [Recorded(hist, Call("at", fn, 0, <<>>, DOWN), clock, "app")
                        EXCEPT !.did = hist.did]
    /\ UNCHANGED <<build, profile, clock, now, it, cur, disp, next_target, slept, pass>>

----------------------------------------------------------------------------
(* start(): the loop, line 223-252 *)

Interval(fn) == Get(INTERVALS, fn)[1]
LastCalled(fn) == Get(INTERVALS, fn)[2]
Target(fn) == Get(TIMERS, fn)[1]

\* a loop that calls a task only after its deadline has passed
IntervalDueLate(fn) ==
    FloatLess(FloatAdd(LastCalled(fn), Interval(fn)), Float(now))
\* line 230-231, line 237: the task is due
IntervalDue(fn) ==
    FloatLeq(FloatAdd(LastCalled(fn), Interval(fn)), Float(now))
TimerDue(fn) == FloatLeq(Target(fn), Float(now))

\* a call from the loop over INTERVALS ("interval"), over TIMERS ("timer")
\* or over PRESSES ("press"; then press is the binding and v what the
\* handler returned); c is the call the handler made: the history of it
NoPress == [fn |-> NoFn, buttons |-> <<>>, action |-> DOWN, id |-> 0]
Log(fn, via, press, v, c) ==
    Append(pass, [fn |-> fn, via |-> via, press |-> press, v |-> v, c |-> c])

\* the tasks that are due at time t, each with the loop that calls it
DueAt(t) ==
    {<<fn, "interval">> :
        fn \in {f \in Keys(INTERVALS) :
                   FloatLeq(FloatAdd(LastCalled(f), Interval(f)), Float(t))}}
    \cup {<<fn, "timer">> :
             fn \in {f \in Keys(TIMERS) : FloatLeq(Target(f), Float(t))}}

\* line 223-229: with nothing registered start() returns; else
\* now = time.monotonic(), t the time it returns, and the loop over
\* INTERVALS.items() begins
LoopTop(t) ==
    /\ pc = "top"
    /\ IF Keys(TIMERS) = {} /\ Keys(INTERVALS) = {}
       THEN /\ pc' = "returned"
            /\ UNCHANGED <<clock, now, it, pass>>
       ELSE /\ clock' = t
            /\ now' = t
            /\ it' = IterNew(INTERVALS)
            /\ pass' = <<>>
            /\ pc' = "intervals"
    /\ hist' = [hist EXCEPT
                   !.halted = @ \/ (~RUNNING /\ hist.stop = "handler"),
                   !.due = DueAt(t),
                   !.h = [f \in Handlers |->
                            [@[f] EXCEPT !.gone = IF @ = "now" THEN "before" ELSE @,
                                         !.fresh = FALSE]]]
    /\ UNCHANGED <<build, profile, err, RUNNING, INTERVALS, TIMERS, PRESSES,
                   BUTTONS, DIOS, GAMEPADSHIFT, pad, cur, disp, next_target,
                   slept>>

\* line 229: the iterator raises RuntimeError
IntervalsRaise ==
    /\ pc = "intervals"
    /\ IterRaises(INTERVALS, it)
    /\ pc' = "raised"
    /\ err' = "RuntimeError"
    /\ UNCHANGED <<build, profile, clock, now, RUNNING, INTERVALS, TIMERS, PRESSES,
                   BUTTONS, DIOS, GAMEPADSHIFT, pad, it, cur, disp,
                   next_target, slept, hist, pass>>

\* line 229, 236: the loop over INTERVALS ends, the loop over TIMERS begins
IntervalsEnd ==
    /\ pc = "intervals"
    /\ ~IterRaises(INTERVALS, it)
    /\ IterStops(INTERVALS, it)
    /\ it' = IterNew(TIMERS)
    /\ pc' = "timers"
    /\ UNCHANGED <<build, profile, err, clock, now, RUNNING, INTERVALS, TIMERS, PRESSES,
                   BUTTONS, DIOS, GAMEPADSHIFT, pad, cur, disp, next_target,
                   slept, hist, pass>>

\* line 229-231: the next periodic task is not due
IntervalsSkip(fn) ==
    /\ pc = "intervals"
    /\ fn \in IterYields(INTERVALS, it)
    /\ ~IntervalDue(fn)
    /\ it' = IterAdvance(INTERVALS, it, fn)
    /\ UNCHANGED <<build, profile, pc, err, clock, now, RUNNING, INTERVALS, TIMERS,
                   PRESSES, BUTTONS, DIOS, GAMEPADSHIFT, pad, cur, disp,
                   next_target, slept, hist, pass>>

\* a loop that keeps the schedule: the task is due again one interval
\* after it was due, not one interval after the pass that called it
ReanchorBehind(d, fn, interval) ==
    DictSet(d, fn, <<interval, IF fn \in Keys(d) THEN Get(d, fn)[2] + interval ELSE now>>)
\* line 233: INTERVALS[fn] = (interval, now)
Reanchor(d, fn, interval) == DictSet(d, fn, <<interval, now>>)

\* line 229-233: the next periodic task is due; its handler fn makes call c
IntervalsFire(fn, c) ==
    /\ pc = "intervals"
    /\ fn \in IterYields(INTERVALS, it) \cap Handlers
    /\ IntervalDue(fn)
    /\ Allowed(c)
    /\ LET w == Apply(World, c, clock, hist.binds + 1)
       IN  SetWorld(IF w.E # "" THEN w
                    ELSE [w EXCEPT !.I = Reanchor(w.I, fn, Interval(fn))],
                    "intervals")
    /\ it' = IterDeleted(IterAdvance(INTERVALS, it, fn), Deletes(c))
    /\ hist' = Made(Called(hist, fn, now), c, clock)
    /\ pass' = Log(fn, "interval", NoPress, None, c)
    /\ UNCHANGED <<build, profile, clock, now, pad, cur, disp, next_target, slept>>

----------------------------------------------------------------------------
(* Gamepad.__call__, line 287-324, called by the loop over INTERVALS.      *)
(* raw are the pins that read true, bits the buttons whose bit is set in   *)
(* the word the shift register returns.                                    *)

In(x, s) == \E i \in 1..Len(s) : s[i] = x

\* line 291-295: down
ReadDown(raw, bits) ==
    LET n == Min(Len(BUTTONS), Len(DIOS))
        idx == SelectSeq([i \in 1..n |-> i], LAMBDA i : DIOS[i] \in raw)
    IN  [i \in 1..Len(idx) |-> BUTTONS[idx[i]]]
        \o SelectSeq(GAMEPAD, LAMBDA b : b \in bits)

\* line 300, 301
FreshDown(down) == SelectSeq(down, LAMBDA b : ~In(b, pad.pressed))
FreshUp(down) == SelectSeq(pad.pressed, LAMBDA b : ~In(b, down))

\* list.remove(x): the list without the first x
RECURSIVE Remove(_, _)
Remove(s, x) ==
    IF s = <<>> THEN <<>>
    ELSE IF Head(s) = x THEN Tail(s)
    ELSE <<Head(s)>> \o Remove(Tail(s), x)

RECURSIVE RemoveAll(_, _)
RemoveAll(s, xs) ==
    IF xs = <<>> THEN s ELSE RemoveAll(Remove(s, Head(xs)), Tail(xs))

\* a poll that never takes a released button out of pressed
PressedKept(down) == pad.pressed \o FreshDown(down)
\* line 303-310: pressed after the poll
Pressed(down) == RemoveAll(pad.pressed \o FreshDown(down), FreshUp(down))

\* a dispatch that takes any button of the combo for the combo
MatchesAny(press, fresh_down, fresh_up) ==
    \/ press.action = DOWN /\ \E i \in 1..Len(press.buttons) : In(press.buttons[i], fresh_down)
    \/ press.action = UP /\ \E i \in 1..Len(press.buttons) : In(press.buttons[i], fresh_up)
\* line 316, 318: the binding matches
Matches(press, fresh_down, fresh_up) ==
    \/ press.action = DOWN /\ \A i \in 1..Len(press.buttons) : In(press.buttons[i], fresh_down)
    \/ press.action = UP /\ \A i \in 1..Len(press.buttons) : In(press.buttons[i], fresh_up)

\* a poll that takes every read for confirmed
BouncedNever(down) == FALSE
\* line 296: the read differs from the one recorded
Bounced(down) == down # pad.down

\* a dispatch no handler ends
HaltsNever(v) == FALSE
\* line 323: what the handler returned ends the loop over PRESSES
Halts(v) == v # PROPOGATE

\* the poll is the periodic task the loop calls next
PollDue ==
    /\ pc = "intervals"
    /\ GamepadFn \in IterYields(INTERVALS, it)
    /\ IntervalDue(GamepadFn)

\* the reads the hardware can return
Reads == SUBSET Range(DIOS)
Words == IF profile = "buttons" THEN SUBSET Range(GAMEPAD) ELSE SUBSET {"GP_A"}

NoDisp == [i |-> 0, fresh_down |-> <<>>, fresh_up |-> <<>>, start |-> <<>>]
NoCur == [fn |-> NoFn, interval |-> 0]

\* line 291: GAMEPADSHIFT is None
PollFault ==
    /\ PollDue
    /\ ~GAMEPADSHIFT
    /\ pc' = "raised"
    /\ err' = "AttributeError"
    /\ it' = IterAdvance(INTERVALS, it, GamepadFn)
    /\ UNCHANGED <<build, profile, clock, now, RUNNING, INTERVALS, TIMERS, PRESSES,
                   BUTTONS, DIOS, GAMEPADSHIFT, pad, cur, disp, next_target,
                   slept, hist, pass>>

\* line 296-298: the read differs from the recorded one; then line 233
PollDefer(raw, bits) ==
    /\ PollDue
    /\ GAMEPADSHIFT
    /\ Bounced(ReadDown(raw, bits))
    /\ pad' = [pad EXCEPT !.down = ReadDown(raw, bits)]
    /\ INTERVALS' = Reanchor(INTERVALS, GamepadFn, Interval(GamepadFn))
    /\ it' = IterAdvance(INTERVALS, it, GamepadFn)
    /\ pass' = Log(GamepadFn, "interval", NoPress, None, NoCall)
    /\ hist' = Polled(hist, ReadDown(raw, bits))
    /\ UNCHANGED <<build, profile, pc, err, clock, now, RUNNING, TIMERS, PRESSES,
                   BUTTONS, DIOS, GAMEPADSHIFT, cur, disp, next_target,
                   slept>>

\* line 300-313: the read is confirmed and nothing changed; then line 233
PollIdle(raw, bits) ==
    /\ PollDue
    /\ GAMEPADSHIFT
    /\ ~Bounced(ReadDown(raw, bits))
    /\ FreshDown(ReadDown(raw, bits)) = <<>> /\ FreshUp(ReadDown(raw, bits)) = <<>>
    /\ INTERVALS' = Reanchor(INTERVALS, GamepadFn, Interval(GamepadFn))
    /\ it' = IterAdvance(INTERVALS, it, GamepadFn)
    /\ pass' = Log(GamepadFn, "interval", NoPress, None, NoCall)
    /\ hist' = Polled(hist, ReadDown(raw, bits))
    /\ UNCHANGED <<build, profile, pc, err, clock, now, RUNNING, TIMERS, PRESSES,
                   BUTTONS, DIOS, GAMEPADSHIFT, pad, cur, disp, next_target,
                   slept>>

\* line 300-315: the read is confirmed and buttons changed: the loop over
\* PRESSES begins
PollDispatch(raw, bits) ==
    /\ PollDue
    /\ GAMEPADSHIFT
    /\ ~Bounced(ReadDown(raw, bits))
    /\ ~(FreshDown(ReadDown(raw, bits)) = <<>> /\ FreshUp(ReadDown(raw, bits)) = <<>>)
    /\ pad' = [pad EXCEPT !.pressed = Pressed(ReadDown(raw, bits))]
    /\ disp' = [i |-> 0, fresh_down |-> FreshDown(ReadDown(raw, bits)),
                fresh_up |-> FreshUp(ReadDown(raw, bits)), start |-> PRESSES]
    /\ cur' = [fn |-> GamepadFn, interval |-> Interval(GamepadFn)]
    /\ it' = IterAdvance(INTERVALS, it, GamepadFn)
    /\ pass' = Log(GamepadFn, "interval", NoPress, None, NoCall)
    /\ pc' = "dispatch"
    /\ hist' = Confirmed(Polled(hist, ReadDown(raw, bits)),
                          FreshDown(ReadDown(raw, bits)) \o FreshUp(ReadDown(raw, bits)))
    /\ UNCHANGED <<build, profile, err, clock, now, RUNNING, INTERVALS, TIMERS, PRESSES,
                   BUTTONS, DIOS, GAMEPADSHIFT, next_target, slept>>

\* line 315, 320-321: the next binding does not match
DispatchPass ==
    /\ pc = "dispatch"
    /\ disp.i < Len(PRESSES)
    /\ ~Matches(PRESSES[disp.i + 1], disp.fresh_down, disp.fresh_up)
    /\ disp' = [disp EXCEPT !.i = @ + 1]
    /\ UNCHANGED <<build, profile, pc, err, clock, now, RUNNING, INTERVALS, TIMERS,
                   PRESSES, BUTTONS, DIOS, GAMEPADSHIFT, pad, it, cur,
                   next_target, slept, hist, pass>>

\* line 315-324: the next binding matches; its handler makes call c and
\* returns v; anything but PROPOGATE ends the poll, then line 233
DispatchCall(c, v) ==
    /\ pc = "dispatch"
    /\ disp.i < Len(PRESSES)
    /\ Matches(PRESSES[disp.i + 1], disp.fresh_down, disp.fresh_up)
    /\ Allowed(c)
    /\ LET press == PRESSES[disp.i + 1]
           w == Apply(World, c, clock, hist.binds + 1)
       IN  /\ SetWorld(IF w.E # "" \/ ~Halts(v) THEN w
                       ELSE [w EXCEPT !.I = Reanchor(w.I, cur.fn, cur.interval)],
                       IF Halts(v) THEN "intervals" ELSE "dispatch")
           /\ hist' = Made(Called(hist, press.fn, now), c, clock)
           /\ pass' = Log(press.fn, "press", press, v, c)
           /\ disp' = IF w.E = "" /\ Halts(v) THEN NoDisp
                      ELSE [disp EXCEPT !.i = @ + 1]
           /\ cur' = IF w.E = "" /\ Halts(v) THEN NoCur ELSE cur
    /\ it' = IterDeleted(it, Deletes(c))
    /\ UNCHANGED <<build, profile, clock, now, pad, next_target, slept>>

\* line 315: the loop over PRESSES ends; then line 233
DispatchEnd ==
    /\ pc = "dispatch"
    /\ disp.i >= Len(PRESSES)
    /\ INTERVALS' = Reanchor(INTERVALS, cur.fn, cur.interval)
    /\ disp' = NoDisp
    /\ cur' = NoCur
    /\ pc' = "intervals"
    /\ UNCHANGED <<build, profile, err, clock, now, RUNNING, TIMERS, PRESSES, BUTTONS,
                   DIOS, GAMEPADSHIFT, pad, it, next_target, slept, hist, pass>>

----------------------------------------------------------------------------
(* start(): the loop over TIMERS and the sleep, line 236-252 *)

\* line 236: the iterator raises RuntimeError
TimersRaise ==
    /\ pc = "timers"
    /\ IterRaises(TIMERS, it)
    /\ pc' = "raised"
    /\ err' = "RuntimeError"
    /\ UNCHANGED <<build, profile, clock, now, RUNNING, INTERVALS, TIMERS, PRESSES,
                   BUTTONS, DIOS, GAMEPADSHIFT, pad, it, cur, disp,
                   next_target, slept, hist, pass>>

\* line 236-237: the next one-shot task is not due
TimersSkip(fn) ==
    /\ pc = "timers"
    /\ fn \in IterYields(TIMERS, it)
    /\ ~TimerDue(fn)
    /\ it' = IterAdvance(TIMERS, it, fn)
    /\ UNCHANGED <<build, profile, pc, err, clock, now, RUNNING, INTERVALS, TIMERS,
                   PRESSES, BUTTONS, DIOS, GAMEPADSHIFT, pad, cur, disp,
                   next_target, slept, hist, pass>>

\* line 236-239: the next one-shot task is due: it is deleted, then its
\* handler fn is called and makes call c
TimersFire(fn, c) ==
    /\ pc = "timers"
    /\ fn \in IterYields(TIMERS, it)
    /\ TimerDue(fn)
    /\ Allowed(c)
    /\ LET w0 == [World EXCEPT !.T = DictPop(TIMERS, fn)]
       IN  SetWorld(Apply(w0, c, clock, hist.binds + 1), "timers")
    /\ it' = IterDeleted(IterAdvance(TIMERS, it, fn), {fn} \cup Deletes(c))
    /\ hist' = Made(Called(hist, fn, now), c, clock)
    /\ pass' = Log(fn, "timer", NoPress, None, c)
    /\ UNCHANGED <<build, profile, clock, now, pad, cur, disp, next_target, slept>>

\* line 241-244: the deadlines min() is taken of
Deadlines ==
    {FloatAdd(LastCalled(fn), Interval(fn)) : fn \in Keys(INTERVALS)}
    \cup {Target(fn) : fn \in Keys(TIMERS)}

\* line 236, 241-244: the loop over TIMERS ends; min() of an empty list
\* raises ValueError
TimersEnd ==
    /\ pc = "timers"
    /\ ~IterRaises(TIMERS, it)
    /\ IterStops(TIMERS, it)
    /\ it' = NoIter
    /\ IF Deadlines = {}
       THEN /\ pc' = "raised"
            /\ err' = "ValueError"
            /\ next_target' = next_target
       ELSE /\ pc' = "sleep"
            /\ err' = err
            /\ next_target' = CHOOSE m \in Deadlines :
                                    \A x \in Deadlines : FloatLeq(m, x)
    /\ UNCHANGED <<build, profile, clock, now, RUNNING, INTERVALS, TIMERS, PRESSES,
                   BUTTONS, DIOS, GAMEPADSHIFT, pad, cur, disp, slept, hist, pass>>

\* line 247-250: time.sleep(slp) returns at time t
Sleep(t) ==
    /\ pc = "sleep"
    /\ FloatLess(Float(clock), next_target)
    /\ clock' = t
    /\ slept' = TRUE
    /\ UNCHANGED <<build, profile, pc, err, now, RUNNING, INTERVALS, TIMERS, PRESSES,
                   BUTTONS, DIOS, GAMEPADSHIFT, pad, it, cur, disp,
                   next_target, hist, pass>>

\* line 247-252: nothing is left to sleep, back to line 223
SleepDone ==
    /\ pc = "sleep"
    /\ ~FloatLess(Float(clock), next_target)
    /\ pc' = "top"
    /\ UNCHANGED <<build, profile, err, clock, now, RUNNING, INTERVALS, TIMERS, PRESSES,
                   BUTTONS, DIOS, GAMEPADSHIFT, pad, it, cur, disp,
                   next_target, slept, hist, pass>>

----------------------------------------------------------------------------
\* the time the clock of the model stops at
Horizon == IF profile = "timers" THEN MaxTime ELSE MaxPollTime

Next ==
    \/ \E c \in AppCalls : AppCall(c)
    \/ \E fn \in Handlers \cup {NoFn} : Start(fn)
    \/ \E t \in clock..Min(clock + 1, Horizon) : LoopTop(t)
    \/ IntervalsRaise
    \/ IntervalsEnd
    \/ \E fn \in Handlers \cup {GamepadFn} : IntervalsSkip(fn)
    \/ \E fn \in Handlers, c \in HandlerCalls : IntervalsFire(fn, c)
    \/ PollFault
    \/ \E raw \in Reads, bits \in Words : PollDefer(raw, bits)
    \/ \E raw \in Reads, bits \in Words : PollIdle(raw, bits)
    \/ \E raw \in Reads, bits \in Words : PollDispatch(raw, bits)
    \/ DispatchPass
    \/ \E c \in HandlerCalls, v \in {PROPOGATE, None} : DispatchCall(c, v)
    \/ DispatchEnd
    \/ TimersRaise
    \/ \E fn \in Handlers : TimersSkip(fn)
    \/ \E fn \in Handlers, c \in HandlerCalls : TimersFire(fn, c)
    \/ TimersEnd
    \/ \E t \in (clock + 1)..Min(next_target[1] + MaxLate, Horizon) : Sleep(t)
    \/ SleepDone

Init == InitOf("timers")
Spec == Init /\ [][Next]_vars

\* an application of the kind "buttons" registers no timer: the steps of
\* Next it can take
NextButtons ==
    \/ \E c \in AppCalls : AppCall(c)
    \/ Start(NoFn)
    \/ \E t \in clock..Min(clock + 1, Horizon) : LoopTop(t)
    \/ IntervalsEnd
    \/ IntervalsSkip(GamepadFn)
    \/ PollFault
    \/ \E raw \in Reads, bits \in Words : PollDefer(raw, bits)
    \/ \E raw \in Reads, bits \in Words : PollIdle(raw, bits)
    \/ \E raw \in Reads, bits \in Words : PollDispatch(raw, bits)
    \/ DispatchPass
    \/ \E c \in HandlerCalls, v \in {PROPOGATE, None} : DispatchCall(c, v)
    \/ DispatchEnd
    \/ TimersEnd
    \/ \E t \in (clock + 1)..Min(next_target[1] + MaxLate, Horizon) : Sleep(t)
    \/ SleepDone

InitButtons == InitOf("buttons")
SpecButtons == InitButtons /\ [][NextButtons]_vars

\* an application of the kind "pins" registers no timer either: the same
\* steps
NextPins ==
    \/ \E c \in AppCalls : AppCall(c)
    \/ Start(NoFn)
    \/ \E t \in clock..Min(clock + 1, Horizon) : LoopTop(t)
    \/ IntervalsEnd
    \/ IntervalsSkip(GamepadFn)
    \/ PollFault
    \/ \E raw \in Reads, bits \in Words : PollDefer(raw, bits)
    \/ \E raw \in Reads, bits \in Words : PollIdle(raw, bits)
    \/ \E raw \in Reads, bits \in Words : PollDispatch(raw, bits)
    \/ DispatchPass
    \/ \E c \in HandlerCalls, v \in {PROPOGATE, None} : DispatchCall(c, v)
    \/ DispatchEnd
    \/ TimersEnd
    \/ \E t \in (clock + 1)..Min(next_target[1] + MaxLate, Horizon) : Sleep(t)
    \/ SleepDone

InitPins == InitOf("pins")
SpecPins == InitPins /\ [][NextPins]_vars

----------------------------------------------------------------------------
(* Properties *)

\* f was registered once, by op, and was never cancelled
Once(f, op) ==
    /\ hist.h[f].regs = 1
    /\ hist.h[f].kind = op
    /\ ~hist.h[f].cancelled

\* f is in none of the three collections
Absent(f) ==
    /\ f \notin Keys(INTERVALS)
    /\ f \notin Keys(TIMERS)
    /\ \A i \in 1..Len(PRESSES) : PRESSES[i].fn # f

\* the calls the loop over PRESSES made in the current pass
PressLog == SelectSeq(pass, LAMBDA e : e.via = "press")

\* this step calls handler f
CalledNow(f) ==
    /\ Len(pass') = Len(pass) + 1
    /\ pass'[Len(pass')].fn = f

\* start() has ended
Ended == pc \in {"raised", "returned"}

\* C1: a handler registered once with after(d, h) at time t0, and neither
\* cancelled nor registered again, is called exactly once in the whole run:
\* never twice, in a pass whose now is at least t0 + d, it is out of TIMERS
\* from then on, and start() does not end before it was called.
C1_OneShotOnce ==
    \A h \in Handlers :
        Once(h, "after") =>
            /\ hist.h[h].calls <= 1
            /\ hist.h[h].calls = 1 =>
                   hist.h[h].last >= hist.h[h].due /\ h \notin Keys(TIMERS)
            /\ Ended => hist.h[h].calls = 1

\* C2: a handler registered once with every(I, h), I > 0, and neither
\* cancelled nor registered again, is called at most once in a pass, and
\* each call is passed a time that is at least the time of the call before
\* plus I.
C2_PeriodicSpacing ==
    [][\A h \in Handlers :
          (CalledNow(h) /\ Once(h, "every")' /\ hist.h[h].want > 0) =>
              /\ \A i \in 1..Len(pass) : pass[i].fn # h
              /\ hist.h[h].calls > 0 => now >= hist.h[h].last + hist.h[h].want
              /\ hist'.h[h].last = now]_vars

\* C2, witness: such a handler was called twice, MaxTime being the second time
C2_Witness ==
    /\ Once("h1", "every")
    /\ hist.h["h1"].calls = 2
    /\ hist.h["h1"].last = MaxTime

\* the calls in the current pass of the handlers bound to A and B pressed
\* together
ComboLog ==
    SelectSeq(PressLog, LAMBDA e : e.press.buttons = <<"GP_A", "GP_B">>
                                   /\ e.press.action = DOWN)

\* C3, as claimed: the handler of a binding of the combo {A, B}, pressed,
\* is called only in a poll in which both became down together; when the
\* reads first show A down in one poll and B down in a later one, it is
\* not called.
C3_ComboRawReads ==
    ComboLog # <<>> => hist.since["GP_A"] = hist.since["GP_B"]

\* C3, amended: the handler of a binding of the combo {A, B}, pressed, is
\* called only in a poll in which both A and B enter the confirmed set
\* pressed, which is a poll that read the same list as the poll before it,
\* A and B in it; it is never called in a poll in which only one of them
\* enters pressed.
C3_ComboFresh ==
    ComboLog # <<>> =>
        /\ hist.moved["GP_A"] = hist.polls
        /\ hist.moved["GP_B"] = hist.polls
        /\ {"GP_A", "GP_B"} \subseteq Range(hist.raw)
        /\ hist.raw = hist.prev
        /\ hist.polls >= 2

\* C3, witness: the handler of the combo was called, the reads having shown
\* A down a poll before B
C3_Witness ==
    /\ ComboLog # <<>>
    /\ hist.since["GP_A"] # 0
    /\ hist.since["GP_A"] < hist.since["GP_B"]

\* the bindings before the loop index that matched the poll
MatchedSoFar ==
    {PRESSES[k].id : k \in {j \in 1..Min(disp.i, Len(PRESSES)) :
                               Matches(PRESSES[j], disp.fresh_down, disp.fresh_up)}}

\* C4: in a poll that dispatches, the handlers of the matching bindings are
\* called in the order the bindings were registered; the loop goes on after
\* a handler that returns PROPOGATE and past a binding that does not match
\* (as long as no handler changes PRESSES, every matching binding before
\* the loop index was called), and after a handler that returns anything
\* else no further handler is called in that poll.
C4_DispatchOrder ==
    LET p == PressLog
    IN  /\ \A i, j \in 1..Len(p) : i < j => p[i].press.id < p[j].press.id
        /\ \A i \in 1..Len(p) : p[i].v # PROPOGATE => i = Len(p) /\ pc # "dispatch"
        /\ (pc = "dispatch" /\ \A i \in 1..Len(p) : p[i].c = NoCall) =>
               /\ MatchedSoFar = {p[i].press.id : i \in 1..Len(p)}
               /\ \A i \in 1..Len(p) : p[i].v = PROPOGATE

\* C4, witness: two bindings matched; the handler of the first returned
\* PROPOGATE, the handler of the second did not
C4_Witness ==
    /\ Len(PressLog) = 2
    /\ PressLog[1].v = PROPOGATE
    /\ PressLog[2].v # PROPOGATE
    /\ PressLog[1].press.id < PressLog[2].press.id

\* C5: a button enters or leaves pressed, and a handler of a binding is
\* called, only in a poll that read the same list of buttons down as the
\* poll before it (so a read that differs from the polls around it changes
\* nothing and calls nothing).
C5_Debounce ==
    /\ \A b \in Range(GAMEPAD) :
           (hist.moved[b] # 0 /\ hist.moved[b] = hist.polls) =>
               hist.raw = hist.prev /\ hist.polls >= 2
    /\ (PressLog # <<>> \/ pc = "dispatch") =>
           hist.raw = hist.prev /\ hist.polls >= 2
    /\ \A b \in Range(GAMEPAD) : In(b, pad.pressed) => hist.moved[b] # 0

\* C5, witness: in the fourth poll a button left pressed and the handler
\* bound to its release was called
C5_Witness ==
    /\ hist.polls = 4
    /\ hist.moved["GP_B"] = 4
    /\ ~In("GP_B", pad.pressed)
    /\ PressLog # <<>>

\* C6: once a handler has called stop(), the loop ends at the top of its
\* next iteration: no handler is called in a later pass.
C6_StopEndsLoop ==
    hist.halted => \A i \in 1..Len(pass) : pass[i].fn \notin Handlers

\* the application registered nothing and called start()
NothingRegistered ==
    /\ pc # "app"
    /\ hist.setup = 0
    /\ hist.binds = 0
    /\ \A f \in Handlers : hist.h[f].regs = 0

\* C7: start() with nothing registered returns at once: no pass is run, no
\* handler is called and start() never sleeps.
C7_EmptyStartReturns ==
    NothingRegistered =>
        /\ pc \in {"top", "returned"}
        /\ pass = <<>>
        /\ ~slept

\* C8: when cancel(fn) returns, fn is in none of the three collections, also
\* when fn was bound to several combos.
C8_CancelRemovesAll ==
    \A f \in Handlers :
        (pc = "app" /\ hist.did = Call("cancel", f, 0, <<>>, DOWN)) => Absent(f)

\* C9: when a handler that is registered as a periodic task is registered
\* again with another interval, by the application or by any handler, it
\* has one entry in INTERVALS, with the new interval, once the pass is over.
C9_ReRegisterInterval ==
    \A h \in Handlers :
        (pc = "sleep" /\ hist.h[h].want >= 0 /\ ~hist.h[h].cancelled) =>
            /\ h \in Keys(INTERVALS)
            /\ Interval(h) = hist.h[h].want
            /\ Len(SelectSeq(INTERVALS.ent, LAMBDA e : e.k = h)) = 1

\* C10: cancel(h) for a handler that is in none of the three collections
\* raises nothing and changes none of them; cancel(h) called twice in a row
\* raises nothing, whatever h is.
C10_CancelAbsent ==
    \A f \in Handlers \cup {GamepadFn} :
        /\ Absent(f) => cancel(World, f) = World
        /\ cancel(World, f).E = ""
        /\ cancel(cancel(World, f), f).E = ""
        /\ (pc = "app" /\ hist.did = Call("cancel", f, 0, <<>>, DOWN)) => err = ""

\* C10, witness: the application called cancel for a handler that was never
\* registered, after a binding of the other handler
C10_Witness ==
    /\ pc = "app"
    /\ hist.did = Call("cancel", "h1", 0, <<>>, DOWN)
    /\ hist.h["h1"].regs = 0
    /\ Len(PRESSES) = 1
    /\ err = ""

\* the number of entries of f in dict d
Entries(d, f) == Len(SelectSeq(d.ent, LAMBDA e : e.k = f))

\* C11, as claimed: no handler is in INTERVALS and in TIMERS at once.
C11_OneSetOnly ==
    \A h \in Handlers : ~(h \in Keys(INTERVALS) /\ h \in Keys(TIMERS))

\* C11, amended: a handler has at most one entry in INTERVALS and at most
\* one in TIMERS (a registration replaces the entry of its own set only, so
\* a handler registered by tick or every and by at or after is in both
\* sets), and cancel removes it from both.
C11_OneEntryPerSet ==
    \A h \in Handlers \cup {GamepadFn} :
        /\ Entries(INTERVALS, h) <= 1
        /\ Entries(TIMERS, h) <= 1
        /\ h \notin Keys(cancel(World, h).I)
        /\ h \notin Keys(cancel(World, h).T)

\* C11, witness: a handler in both sets was called from both in one pass
C11_Witness ==
    /\ \E i \in 1..Len(pass) : pass[i].fn = "h1" /\ pass[i].via = "interval"
    /\ \E i \in 1..Len(pass) : pass[i].fn = "h1" /\ pass[i].via = "timer"
    /\ hist.h["h1"].regs = 2

\* C12: a binding of a combo with a name that is no button is not fatal:
\* on() returns, the binding is in PRESSES, and the name is in no list down
\* or pressed of any later poll.
C12_UnknownButton ==
    /\ err # "UnboundLocalError"
    /\ pc = "app" => Len(PRESSES) = hist.binds
    /\ Unknown \notin Range(hist.raw) \cup Range(pad.down) \cup Range(pad.pressed)

\* the tasks the loops over INTERVALS and TIMERS called in the current pass
Invoked ==
    {<<pass[i].fn, pass[i].via>> : i \in {j \in 1..Len(pass) : pass[j].via # "press"}}

\* the pass is over: start() sleeps, or the loops or min() raised
PassOver == pc = "sleep" \/ err \in {"RuntimeError", "ValueError"}

\* C13: the tasks called in a pass are exactly the tasks that were due when
\* the pass began: a task a handler registers during the pass is not called
\* in that pass, and a task that was due is called in that pass also when a
\* handler called earlier in the pass cancels it.
C13_DueAtPassStart ==
    /\ Invoked \subseteq hist.due
    /\ PassOver => hist.due \subseteq Invoked

\* C14: once cancel(h) was called, by the application or by any handler,
\* h itself included, and h was not registered again, h is in neither
\* INTERVALS nor TIMERS when the current pass is over, and no later pass
\* calls it.
C14_CancelledStaysOut ==
    \A h \in Handlers :
        /\ (hist.h[h].gone # "no" /\ PassOver) =>
               h \notin Keys(INTERVALS) /\ h \notin Keys(TIMERS)
        /\ hist.h[h].gone = "before" =>
               \A i \in 1..Len(pass) : pass[i].fn = h => pass[i].via = "press"

\* the entries of the current pass in which the loop over TIMERS called h
\* and h registered itself again with after()
Rearmed(h) ==
    {i \in 1..Len(pass) : /\ pass[i].fn = h
                          /\ pass[i].via = "timer"
                          /\ pass[i].c.op = "after"
                          /\ pass[i].c.fn = h
                          /\ pass[i].c.n > 0}

\* C15: a one-shot task that is due is deleted before its handler is
\* called, so when the handler registers itself again with a later target
\* during its call, it is called once in that pass, it is in TIMERS with the
\* new target for the rest of the pass, and the pass ends without an error,
\* so that it is called again at the new target.
C15_RearmOneShot ==
    \A h \in Handlers :
        Rearmed(h) # {} =>
            /\ Cardinality({i \in 1..Len(pass) : pass[i].fn = h /\ pass[i].via = "timer"}) = 1
            /\ h \in Keys(TIMERS)
            /\ \A i \in Rearmed(h) : Target(h) = FloatAdd(now, pass[i].c.n)
            /\ err = ""

\* the bindings of list presses that match the current poll
MatchingIds(presses) ==
    {presses[k].id : k \in {j \in 1..Len(presses) :
                               Matches(presses[j], disp.fresh_down, disp.fresh_up)}}

\* C16: when handlers cancel or register bindings during a dispatch and all
\* return PROPOGATE, the loop ends having called the handler of every
\* binding that was in PRESSES when it began and matches, each once, and of
\* no other binding.
C16_DispatchOverSnapshot ==
    (/\ pc = "dispatch"
     /\ disp.i >= Len(PRESSES)
     /\ \A i \in 1..Len(PressLog) : PressLog[i].v = PROPOGATE) =>
        /\ {PressLog[i].press.id : i \in 1..Len(PressLog)} = MatchingIds(disp.start)
        /\ \A i, j \in 1..Len(PressLog) :
               PressLog[i].press.id = PressLog[j].press.id => i = j

\* C17: when a pass leaves neither a periodic nor a one-shot task, there is
\* no deadline to wait for and start() returns, without raising an error.
C17_NoDeadlineReturns ==
    (/\ Keys(INTERVALS) = {}
     /\ Keys(TIMERS) = {}
     /\ pc \notin {"app", "intervals", "dispatch", "timers"}) =>
        pc = "returned" /\ err = ""

\* h was registered once, by tick or every, before the current pass began,
\* and was never cancelled
PeriodicBefore(h) ==
    /\ Once(h, "tick") \/ Once(h, "every")
    /\ ~hist.h[h].fresh
    /\ pc \notin {"app", "top"}

\* the loop over INTERVALS of the current pass is over
IntervalsOver == pc \in {"timers", "sleep"}

\* C18, as claimed: a handler registered by tick or every, with any
\* interval, is called in the first pass that begins after the
\* registration, whatever the time of that pass is.
C18_FirstPassFires ==
    \A h \in Handlers :
        (PeriodicBefore(h) /\ IntervalsOver) => hist.h[h].calls >= 1

\* C18, amended: a handler registered by tick or every with interval I gets
\* last_called = 0 and is called in the first pass that begins after the
\* registration at a time now >= I, and in no pass before it: its first
\* call is at a time >= I.
C18_FirstPassAfterInterval ==
    \A h \in Handlers :
        /\ (PeriodicBefore(h) /\ IntervalsOver /\ now >= hist.h[h].want) =>
               hist.h[h].calls >= 1
        /\ (PeriodicBefore(h) /\ hist.h[h].calls >= 1) =>
               hist.h[h].last >= hist.h[h].want
        /\ (hist.h[h].fresh /\ h \in Keys(INTERVALS) /\ hist.did.fn = h
            /\ hist.did.op \in {"tick", "every"} /\ pc = "app") =>
               LastCalled(h) = 0

\* C18, witness: a handler registered with an interval of two units was
\* not called in a pass at time 1 and was called in the pass at time 2
C18_Witness ==
    /\ PeriodicBefore("h1")
    /\ hist.h["h1"].want = 2
    /\ hist.h["h1"].calls = 1
    /\ hist.h["h1"].last = 2
    /\ slept

\* no element of s is in s twice
NoDuplicates(s) == \A i, j \in 1..Len(s) : s[i] = s[j] => i = j

\* the last poll read what the poll before it had recorded in down
GuardPassed == hist.polls >= 1 /\ hist.raw = hist.prev

\* C19: after a poll that passes the bounce guard, pressed holds exactly
\* the buttons of the list down the poll read, each of them once, and the
\* lists fresh_down and fresh_up of the poll share no button; a poll the
\* bounce guard defers leaves pressed as it was and calls no handler.
C19_PressedIsDown ==
    /\ [](GuardPassed =>
             /\ Range(pad.pressed) = Range(hist.raw)
             /\ NoDuplicates(pad.pressed))
    /\ [](pc = "dispatch" =>
             Range(disp.fresh_down) \cap Range(disp.fresh_up) = {})
    /\ [][(hist'.polls = hist.polls + 1 /\ hist'.raw # hist'.prev) =>
             /\ pad'.pressed = pad.pressed
             /\ pad'.down = hist'.raw
             /\ PressLog' = <<>>
             /\ pc' # "dispatch"]_vars

\* C19, witness: a poll that passed the guard found one button newly down
\* and another one released, and pressed holds the one that is down
C19_Witness ==
    /\ pc = "dispatch"
    /\ GuardPassed
    /\ disp.fresh_down # <<>>
    /\ disp.fresh_up # <<>>
    /\ pad.pressed = hist.raw
    /\ Len(pad.pressed) = 1

\* C20: the poll start() registers ends without an error whatever the
\* application bound, also when it bound discrete buttons only and
\* GAMEPADSHIFT was never created.
C20_PollNeverFaults ==
    (pc # "app" /\ ~GAMEPADSHIFT) => err # "AttributeError"

====
